---- MODULE Spec2Model ----
(***************************************************************************)
(* ts-refined: refinement predicates over strings (NotEmpty, NotBlank,     *)
(* Trimmed, LowerCase, UpperCase, Nil) and the narrowing / lifting engine  *)
(* (guard, guards, lift, lifts, liftUnsafe, guardImpl).                    *)
(*                                                                         *)
(* A string is a sequence of one-character strings.  A predicate           *)
(* constructor is named by its class name.                                 *)
(***************************************************************************)
EXTENDS Integers, Sequences, FiniteSets

VARIABLES a, xs, last, tag, passed

vars == <<a, xs, last, tag, passed>>

(***************************************************************************)
(* Bounds                                                                  *)
(***************************************************************************)
\* longest string value
MaxLen == 3
\* most predicate constructors in one call
MaxPreds == 3
\* longest string value, and most constructors in one call, where a value is
\* followed through a chain of calls
MaxLineageLen == 2
MaxLineagePreds == 2

(***************************************************************************)
(* Characters and strings                                                  *)
(***************************************************************************)
\* a lower-case letter, an upper-case letter, a space and a line feed
Alphabet == {"a", "A", " ", "\n"}

StringsUpTo(n) == UNION {[1..k -> Alphabet] : k \in 0..n}

Values == StringsUpTo(MaxLen)

LineageValues == StringsUpTo(MaxLineageLen)

\* the regular expression class \s
IsSpace(c) == c \in {" ", "\n"}

\* the regular expression atom . (no s flag): anything but a line terminator
IsDot(c) == c # "\n"

InClass(cls, c) ==
    CASE cls = "s"    -> IsSpace(c)
      [] cls = "notS" -> ~IsSpace(c)
      [] cls = "dot"  -> IsDot(c)

\* A pattern is a sequence of items [cls, star]; it is anchored at both ends
\* (^ ... $ without the m flag).  RegexFrom backtracks like the engine does:
\* a starred item is skipped or consumes one more character.
RECURSIVE RegexFrom(_, _, _, _)
RegexFrom(pat, s, i, j) ==
    IF i > Len(pat) THEN j > Len(s)
    ELSE IF ~pat[i].star
         THEN j <= Len(s) /\ InClass(pat[i].cls, s[j]) /\ RegexFrom(pat, s, i + 1, j + 1)
         ELSE \/ RegexFrom(pat, s, i + 1, j)
              \/ j <= Len(s) /\ InClass(pat[i].cls, s[j]) /\ RegexFrom(pat, s, i, j + 1)

RegexTest(pat, s) == RegexFrom(pat, s, 1, 1)

\* /^\s*$/
BlankPattern == <<[cls |-> "s", star |-> TRUE]>>

\* /^[^\s].*?[^\s]$/
TrimmedPattern ==
    <<[cls |-> "notS", star |-> FALSE],
      [cls |-> "dot",  star |-> TRUE],
      [cls |-> "notS", star |-> FALSE]>>

LowerChar(c) == IF c = "A" THEN "a" ELSE c

UpperChar(c) == IF c = "a" THEN "A" ELSE c

toLowerCase(s) == [k \in 1..Len(s) |-> LowerChar(s[k])]

toUpperCase(s) == [k \in 1..Len(s) |-> UpperChar(s[k])]

(***************************************************************************)
(* Predicates                                                              *)
(***************************************************************************)
NotEmpty(s) == s # <<>>

NotBlank(s) == ~RegexTest(BlankPattern, s)

Trimmed(s) == RegexTest(TrimmedPattern, s)

LowerCase(s) == s = toLowerCase(s)

UpperCase(s) == s = toUpperCase(s)

Nil(s) == TRUE

Predicates == {"NotEmpty", "NotBlank", "Trimmed", "LowerCase", "UpperCase", "Nil"}

\* new x().test(v)
Test(x, v) ==
    CASE x = "NotEmpty"  -> NotEmpty(v)
      [] x = "NotBlank"  -> NotBlank(v)
      [] x = "Trimmed"   -> Trimmed(v)
      [] x = "LowerCase" -> LowerCase(v)
      [] x = "UpperCase" -> UpperCase(v)
      [] x = "Nil"       -> Nil(v)

ListsUpTo(n) == UNION {[1..k -> Predicates] : k \in 0..n}

PredLists == ListsUpTo(MaxPreds)

LineageLists == ListsUpTo(MaxLineagePreds)

Range(f) == {f[k] : k \in DOMAIN f}

(***************************************************************************)
(* The engine                                                              *)
(***************************************************************************)
\* a loop that answers true as soon as one predicate passes
RECURSIVE guardLoopReturnsEarly(_, _, _, _)
guardLoopReturnsEarly(v, ps, i, log) ==
    IF i > Len(ps) THEN [ret |-> TRUE, log |-> log]
    ELSE LET ev == log \o <<<<"new", ps[i]>>, <<"test", ps[i]>>>>
         IN  [ret |-> Test(ps[i], v), log |-> ev]

\* a loop that tests every predicate and answers their conjunction
RECURSIVE guardLoopNoShortCircuit(_, _, _, _)
guardLoopNoShortCircuit(v, ps, i, log) ==
    IF i > Len(ps) THEN [ret |-> TRUE, log |-> log]
    ELSE LET ev   == log \o <<<<"new", ps[i]>>, <<"test", ps[i]>>>>
             rest == guardLoopNoShortCircuit(v, ps, i + 1, ev)
         IN  [ret |-> Test(ps[i], v) /\ rest.ret, log |-> rest.log]

\* The for loop of guardImpl from position i on; log collects, in order, each
\* constructor call and each test call the loop makes.
RECURSIVE guardLoop(_, _, _, _)
guardLoop(v, ps, i, log) ==
    IF i > Len(ps) THEN [ret |-> TRUE, log |-> log]
    ELSE LET ev == log \o <<<<"new", ps[i]>>, <<"test", ps[i]>>>>
         IN  IF ~Test(ps[i], v) THEN [ret |-> FALSE, log |-> ev]
             ELSE guardLoop(v, ps, i + 1, ev)

guardImpl(v, ps) == guardLoop(v, ps, 1, <<>>)

\* String(x) of a constructor: its source text, which holds its name
CtorToString(x) == <<"function ", x, "() { ... }">>

\* String(ps) of an array: its elements' strings joined by commas
RECURSIVE ArrayToString(_)
ArrayToString(ps) ==
    IF ps = <<>> THEN <<>>
    ELSE IF Len(ps) = 1 THEN CtorToString(ps[1])
    ELSE CtorToString(ps[1]) \o <<",">> \o ArrayToString(Tail(ps))

\* String(v) of a string value is the string
ValueToString(v) == v

\* a message that names only the predicates the loop reached
ErrorMessageReachedOnly(v, ps) ==
    LET n == Len(guardImpl(v, ps).log) \div 2
    IN  <<"Refinement error: ">> \o ArrayToString(SubSeq(ps, 1, n))
            \o <<": ">> \o ValueToString(v) \o <<".">>

\* `Refinement error: ${xs}: ${a}.`
ErrorMessage(v, ps) ==
    <<"Refinement error: ">> \o ArrayToString(ps) \o <<": ">> \o ValueToString(v) \o <<".">>

\* a call that threw returns nothing
NoValue == <<"undefined">>

Returned(val, log) == [kind |-> "return", value |-> val, err |-> <<>>, log |-> log]

Thrown(msg, log) == [kind |-> "throw", value |-> NoValue, err |-> msg, log |-> log]

\* a guard that raises where it should answer false
guardThrows(v, ps) ==
    LET g == guardImpl(v, ps)
    IN  IF g.ret THEN Returned(TRUE, g.log) ELSE Thrown(ErrorMessage(v, ps), g.log)

guard(v, ps) ==
    LET g == guardImpl(v, ps) IN Returned(g.ret, g.log)

\* a guards that narrows whatever the check said
guardsAlwaysTrue(v, ps) ==
    LET g == guardImpl(v, ps) IN Returned(TRUE, g.log)

guards(v, ps) ==
    LET g == guardImpl(v, ps) IN Returned(g.ret, g.log)

\* a lift with its condition inverted
liftInverted(v, ps) ==
    LET g == guardImpl(v, ps)
    IN  IF ~g.ret THEN Returned(v, g.log) ELSE Thrown(ErrorMessage(v, ps), g.log)

\* a lift that returns a normalised copy of the value
liftNormalises(v, ps) ==
    LET g == guardImpl(v, ps)
    IN  IF g.ret THEN Returned(toLowerCase(v), g.log) ELSE Thrown(ErrorMessage(v, ps), g.log)

lift(v, ps) ==
    LET g == guardImpl(v, ps)
    IN  IF g.ret THEN Returned(v, g.log) ELSE Thrown(ErrorMessage(v, ps), g.log)

\* a lifts that only casts
liftsUnchecked(v, ps) == Returned(v, <<>>)

lifts(v, ps) ==
    LET g == guardImpl(v, ps)
    IN  IF g.ret THEN Returned(v, g.log) ELSE Thrown(ErrorMessage(v, ps), g.log)

\* a liftUnsafe that checks the value is not blank
liftUnsafeChecked(v) == lift(v, <<"NotBlank">>)

liftUnsafe(v) == Returned(v, <<>>)

(***************************************************************************)
(* Calls on one value with one list of constructors.  last is the outcome   *)
(* of the latest call; tag and passed are followed only along a lineage.   *)
(***************************************************************************)
NoCall == [op |-> "none"]

Called(op, out) ==
    [op |-> op, kind |-> out.kind, value |-> out.value, err |-> out.err, log |-> out.log]

Init ==
    /\ a \in Values
    /\ xs \in PredLists
    /\ last = NoCall
    /\ tag = {}
    /\ passed = {}

CallGuard ==
    /\ last' = Called("guard", guard(a, xs))
    /\ UNCHANGED <<a, xs, tag, passed>>

CallGuards ==
    /\ last' = Called("guards", guards(a, xs))
    /\ UNCHANGED <<a, xs, tag, passed>>

CallLift ==
    /\ last' = Called("lift", lift(a, xs))
    /\ UNCHANGED <<a, xs, tag, passed>>

CallLifts ==
    /\ last' = Called("lifts", lifts(a, xs))
    /\ UNCHANGED <<a, xs, tag, passed>>

CallLiftUnsafe ==
    /\ last' = Called("liftUnsafe", liftUnsafe(a))
    /\ UNCHANGED <<a, xs, tag, passed>>

Next ==
    \/ CallGuard
    \/ CallGuards
    \/ CallLift
    \/ CallLifts
    \/ CallLiftUnsafe

Spec == Init /\ [][Next]_vars

(***************************************************************************)
(* A predicate's test on its own                                           *)
(***************************************************************************)
InitTest ==
    /\ a \in Values
    /\ xs = <<>>
    /\ last = NoCall
    /\ tag = {}
    /\ passed = {}

Tested(x) ==
    /\ last' = [op |-> "test", pred |-> x, value |-> Test(x, a)]
    /\ UNCHANGED <<a, xs, tag, passed>>

TestNotEmpty == Tested("NotEmpty")

TestNotBlank == Tested("NotBlank")

TestTrimmed == Tested("Trimmed")

TestLowerCase == Tested("LowerCase")

TestUpperCase == Tested("UpperCase")

TestNil == Tested("Nil")

NextTest ==
    \/ TestNotEmpty
    \/ TestNotBlank
    \/ TestTrimmed
    \/ TestLowerCase
    \/ TestUpperCase
    \/ TestNil

SpecTest == InitTest /\ [][NextTest]_vars

(***************************************************************************)
(* The lineage of one value: a chain of guard, guards, lift and lifts      *)
(* calls.  tag is the static type the signatures give the value; passed    *)
(* is the set of predicates the successful calls have tested.              *)
(***************************************************************************)
\* Refined<A, T> intersected with the type the value already has
Refined(t, ps) == t \cup Range(ps) \cup {"Nil"}

TestCalls(log) == SelectSeq(log, LAMBDA e : e[1] = "test")

TestedIn(log) == {e[2] : e \in Range(TestCalls(log))}

InitLineage ==
    /\ a \in LineageValues
    /\ xs = <<>>
    /\ last = NoCall
    /\ tag = {}
    /\ passed = {}

\* the call named op ended in out; ok says whether the value was narrowed
Narrowed(op, ps, out, ok) ==
    /\ last' = [op |-> op, kind |-> out.kind, ok |-> ok]
    /\ tag' = IF ok THEN Refined(tag, ps) ELSE tag
    /\ passed' = IF ok THEN passed \cup TestedIn(out.log) ELSE passed
    /\ UNCHANGED <<a, xs>>

LineageGuard ==
    \E ps \in LineageLists :
        LET out == guard(a, ps) IN Narrowed("guard", ps, out, out.value = TRUE)

\* guards and lifts take a value of a refined type
LineageGuards ==
    /\ tag # {}
    /\ \E ps \in LineageLists :
        LET out == guards(a, ps) IN Narrowed("guards", ps, out, out.value = TRUE)

LineageLift ==
    \E ps \in LineageLists :
        LET out == lift(a, ps) IN Narrowed("lift", ps, out, out.kind = "return")

LineageLifts ==
    /\ tag # {}
    /\ \E ps \in LineageLists :
        LET out == lifts(a, ps) IN Narrowed("lifts", ps, out, out.kind = "return")

NextLineage ==
    \/ LineageGuard
    \/ LineageGuards
    \/ LineageLift
    \/ LineageLifts

SpecLineage == InitLineage /\ [][NextLineage]_vars

(***************************************************************************)
(* Properties of a call                                                    *)
(***************************************************************************)
Checking == {"guard", "guards", "lift", "lifts"}

AllPass(v, ps) == \A k \in 1..Len(ps) : Test(ps[k], v)

\* what the check of the last call answered
CheckSaidTrue ==
    IF last.op \in {"guard", "guards"} THEN last.value = TRUE ELSE last.kind = "return"

\* the number of predicates the loop should reach: the index of the first
\* failing one, or all of them
Reached(v, ps) ==
    IF AllPass(v, ps) THEN Len(ps)
    ELSE CHOOSE k \in 1..Len(ps) :
            /\ ~Test(ps[k], v)
            /\ \A j \in 1..(k - 1) : Test(ps[j], v)

ExpectedLog(v, ps) ==
    [k \in 1..(2 * Reached(v, ps)) |->
        IF k % 2 = 1 THEN <<"new", ps[(k + 1) \div 2]>> ELSE <<"test", ps[k \div 2]>>]

\* C1: the check of guard, guards, lift and lifts answers true iff every
\* predicate of the list holds of the value (true for the empty list).
C1_CheckIsConjunction ==
    last.op \in Checking => (CheckSaidTrue <=> AllPass(a, xs))

C1_Witness ==
    /\ last.op = "guard"
    /\ Len(xs) = 3
    /\ xs[1] # xs[2] /\ xs[2] # xs[3] /\ xs[1] # xs[3]
    /\ "Nil" \notin Range(xs)
    /\ last.value = TRUE

\* C2: constructors are instantiated and tested in the order supplied, and
\* nothing after the first failing predicate is instantiated or tested: the
\* number of test calls is the index of the first failing predicate, or the
\* length of the list when none fails.
C2_ShortCircuitInOrder ==
    last.op \in Checking =>
        /\ last.log = ExpectedLog(a, xs)
        /\ Len(TestCalls(last.log)) = Reached(a, xs)

C2_Witness ==
    /\ last.op = "lift"
    /\ Len(xs) = 3
    /\ Test(xs[1], a) /\ ~Test(xs[2], a) /\ ~Test(xs[3], a)
    /\ Len(TestCalls(last.log)) = 2

\* C3: guard and lift agree on pass or fail for the same value and list:
\* guard returns true exactly when lift returns, and false exactly when lift
\* throws; likewise guards and lifts.
C3_GuardAgreesWithLift ==
    /\ last.op = "guard" =>
          /\ last.kind = "return"
          /\ (last.value = TRUE) <=> (lift(a, xs).kind = "return")
          /\ (last.value = FALSE) <=> (lift(a, xs).kind = "throw")
    /\ last.op = "guards" =>
          /\ last.kind = "return"
          /\ (last.value = TRUE) <=> (lifts(a, xs).kind = "return")
          /\ (last.value = FALSE) <=> (lifts(a, xs).kind = "throw")
    /\ last.op = "lift" => ((last.kind = "return") <=> (guard(a, xs).value = TRUE))
    /\ last.op = "lifts" => ((last.kind = "return") <=> (guards(a, xs).value = TRUE))

C3_Witness ==
    /\ last.op = "guard"
    /\ Len(xs) = 2
    /\ last.value = FALSE
    /\ lift(a, xs).kind = "throw"

\* C4: when every predicate passes, lift and lifts return the very value
\* passed in, and the value is never changed; when a predicate fails they
\* return no value at all and end in the error.
C4_LiftReturnsSameValue ==
    /\ [](last.op \in {"lift", "lifts"} =>
            /\ AllPass(a, xs) => (last.kind = "return" /\ last.value = a /\ last.err = <<>>)
            /\ ~AllPass(a, xs) => (last.kind = "throw" /\ last.value = NoValue))
    /\ [][a' = a]_vars

C4_Witness ==
    /\ last.op = "lifts"
    /\ Len(xs) = 2
    /\ a # toLowerCase(a)
    /\ Len(a) = MaxLen
    /\ last.kind = "return"

NamesIn(msg) == SelectSeq(msg, LAMBDA t : t \in Predicates)

EndsWith(msg, suffix) ==
    /\ Len(msg) >= Len(suffix)
    /\ SubSeq(msg, Len(msg) - Len(suffix) + 1, Len(msg)) = suffix

\* C5: the error of a failing lift or lifts names the whole list of
\* predicates supplied, in order (not only the failing one, not only those
\* evaluated), and ends with the rendering of the rejected value.
C5_ErrorNamesAllPredicates ==
    (last.op \in {"lift", "lifts"} /\ last.kind = "throw") =>
        /\ NamesIn(last.err) = xs
        /\ Head(last.err) = "Refinement error: "
        /\ EndsWith(last.err, <<": ">> \o a \o <<".">>)

C5_Witness ==
    /\ last.op = "lift"
    /\ last.kind = "throw"
    /\ xs = <<"NotBlank", "LowerCase">>
    /\ a = <<"A", "A">>
    /\ Len(TestCalls(last.log)) = 2

\* lifts(lift(v, A), B): the second call runs only if the first returned
liftThenLifts(v, A, B) ==
    LET first == lift(v, A)
    IN  IF first.kind = "throw" THEN first ELSE lifts(first.value, B)

Splits(ps) == 1..(Len(ps) - 1)

\* C6: lift(v, A) followed by lifts(result, B) fails exactly when some
\* predicate of A or of B fails on v, as lift(v, A, B) does, and when both
\* pass it yields the same value as the direct call.
C6_ChainEqualsDirect ==
    last.op = "lift" =>
        \A k \in Splits(xs) :
            LET A == SubSeq(xs, 1, k)
                B == SubSeq(xs, k + 1, Len(xs))
                chain == liftThenLifts(a, A, B)
            IN  /\ chain.kind = last.kind
                /\ chain.value = last.value
                /\ (chain.kind = "throw") <=> (~AllPass(a, A) \/ ~AllPass(a, B))

C6_Witness ==
    /\ last.op = "lift"
    /\ Len(xs) = 2
    /\ Test(xs[1], a) /\ ~Test(xs[2], a)
    /\ liftThenLifts(a, <<xs[1]>>, <<xs[2]>>).kind = "throw"

\* C7: liftUnsafe never throws, instantiates and tests no predicate, and
\* returns its input unchanged, whatever the value.
C7_LiftUnsafeNeverChecks ==
    last.op = "liftUnsafe" =>
        /\ last.kind = "return"
        /\ last.value = a
        /\ last.log = <<>>
        /\ last.err = <<>>

C7_Witness ==
    /\ last.op = "liftUnsafe"
    /\ Len(xs) = 3
    /\ Cardinality(Range(xs)) = 3
    /\ \A k \in 1..Len(xs) : ~Test(xs[k], a)
    /\ lift(a, xs).kind = "throw"
    /\ last.kind = "return"

\* C9: guard and guards never raise: they end with a boolean, true when
\* every predicate passes and false otherwise.
C9_GuardNeverThrows ==
    last.op \in {"guard", "guards"} =>
        /\ last.kind = "return"
        /\ last.err = <<>>
        /\ last.value \in BOOLEAN
        /\ last.value = AllPass(a, xs)

C9_Witness ==
    /\ last.op = "guards"
    /\ last.kind = "return"
    /\ last.value = FALSE
    /\ Len(xs) = 3

C10_TrimmedIffEdgesNotSpace ==
    (last.op = "test" /\ last.pred = "Trimmed") =>
        (last.value <=>
            (Len(a) >= 2 /\ ~IsSpace(a[1]) /\ ~IsSpace(a[Len(a)])))

====
